---- MODULE Spec2Model ----
(***************************************************************************)
(* The streaming conversation client of src/joke_generator/page.tsx (the   *)
(* socket variant): the ChatBot component's state, its WebSocket           *)
(* callbacks, the reconnect timer, the unmount cleanup and sendMessage.    *)
(*                                                                         *)
(* React state is modelled by the value last handed to each setter (the    *)
(* callbacks keep calling the setters after the cleanup has run: nothing   *)
(* detaches them); a handler is one atomic step (the component is          *)
(* single-threaded and every handler runs to completion).  sendMessage and *)
(* setInput are explored in every state of the mounted component, whether  *)
(* or not the rendered controls are disabled there.  Message ids and       *)
(* timestamps (generateId, Date.now) are left out: no handler reads them.  *)
(*                                                                         *)
(* The WebSocket object is the browser's.  It is modelled as the WHATWG    *)
(* WebSockets standard describes it: readyState goes CONNECTING -> OPEN -> *)
(* CLOSING -> CLOSED; a message event is delivered only while the socket   *)
(* is OPEN; when the connection fails the socket becomes CLOSED and the    *)
(* error event and then the close event are fired in one task; a socket    *)
(* fires close exactly once.                                               *)
(***************************************************************************)
EXTENDS Naturals, Sequences, FiniteSets, TLC

VARIABLES
    messages,           \* useState<Message[]>: sequence of [role, content]
    input,              \* useState(""): the text field, a sequence of characters
    isStreaming,        \* useState(false)
    currentAgent,       \* useState<AgentStatus | null>
    connectionError,    \* useState<string>("")
    connectionStatus,   \* useState<string>("Disconnected")
    wsRef,              \* useRef<WebSocket | null>: 0 is null, else a socket id
    readyState,         \* the readyState of every socket the client created
    nSockets,           \* how many sockets `new WebSocket` has created
    timers,             \* pending setTimeout(..., 3000) callbacks
    phase,              \* "created" (rendered), "mounted" (effect ran), "unmounted" (cleanup ran)
    pendingClose,       \* socket whose close event follows its error event in the same task, or 0
    sent,               \* what ws.send was given, in order: [ws, text]
    last                \* the handler that ran last (history)

observable == <<messages, isStreaming, currentAgent, connectionError, connectionStatus>>
vars == <<messages, input, isStreaming, currentAgent, connectionError, connectionStatus,
          wsRef, readyState, nSockets, timers, phase, pendingClose, sent, last>>

----------------------------------------------------------------------------
(* Bounds of the model.  A step that would create one socket more than      *)
(* MaxSockets, or append to a log of MaxLog messages, is not explored: the  *)
(* guards `nSockets < MaxSockets` and `Len(messages) < MaxLog` below are    *)
(* these bounds, not conditions of the source.                              *)

\* sockets the client may create in one run
MaxSockets == 3
\* length of the message log at which appends stop being explored
MaxLog == 2

----------------------------------------------------------------------------
(* JavaScript values *)

\* A JavaScript string is a sequence of characters; a literal of the source is
\* written as a one-element sequence holding the literal's text.
S(text) == <<text>>
EmptyString == <<>>
\* the value of a missing property (distinct from every string)
Undefined == <<"undefined", "undefined">>
\* null, for currentAgent and for a JSON null
Null == [kind |-> "null"]
\* JavaScript truthiness of a string-or-undefined value
Truthy(v) == v # Undefined /\ v # EmptyString

\* whitespace characters String.prototype.trim removes
WhiteSpace == {" ", "\t"}

RECURSIVE TrimStart(_)
TrimStart(s) ==
    IF s # <<>> /\ Head(s) \in WhiteSpace THEN TrimStart(Tail(s)) ELSE s

RECURSIVE TrimEnd(_)
TrimEnd(s) ==
    IF s # <<>> /\ s[Len(s)] \in WhiteSpace THEN TrimEnd(SubSeq(s, 1, Len(s) - 1)) ELSE s

\* input.trim()
Trim(s) == TrimEnd(TrimStart(s))

\* what the user may type into the text field
Inputs == { <<>>, <<" ", "\t">>, <<" ", "a", " ">>, <<"b">> }

\* a decoded JSON object: its properties
Obj(fields) == [kind |-> "object", fields |-> fields]
NoFields == [f \in {} |-> Undefined]
Has(obj, f) == f \in DOMAIN obj.fields
\* property access on a decoded object: a missing property reads as undefined
Field(obj, f) == IF Has(obj, f) THEN obj.fields[f] ELSE Undefined

\* JSON.stringify of {type, topic}: the members in order, each a (key, value) pair
JSONstringify(type, topic) == << <<S("type"), type>>, <<S("topic"), topic>> >>

\* The text of an inbound message event: malformed text, or the serialisation
\* of a JSON value.
Malformed == [valid |-> FALSE]
Text(value) == [valid |-> TRUE, value |-> value]
\* JSON.parse: throws on malformed text
JSONparse(text) ==
    IF text.valid THEN [threw |-> FALSE, value |-> text.value] ELSE [threw |-> TRUE]

Envelope(type, data) == Obj([type |-> S(type), data |-> data])

\* the inbound message values the server may send
Inbound == {
    Null,
    Obj(NoFields),
    Obj([type |-> S("status")]),
    Obj([type |-> S("error")]),
    Envelope("data", Null),
    Envelope("ping", Obj(NoFields)),
    Envelope("status", Obj(NoFields)),
    Envelope("status", Obj([step |-> S("received")])),
    Envelope("status", Obj([step |-> S("accepted")])),
    Envelope("status", Obj([step |-> S("group:start")])),
    Envelope("status", Obj([step |-> S("group:done")])),
    Envelope("status", Obj([step |-> S("other")])),
    Envelope("agent_message", Obj([agent |-> S("Writer"), content |-> S("draft")])),
    Envelope("agent_message", Obj([agent |-> EmptyString, content |-> S("draft")])),
    Envelope("agent_message", Obj([agent |-> S("Writer"), content |-> EmptyString])),
    Envelope("agent_message", Obj([agent |-> S("Writer")])),
    Envelope("data", Obj([final |-> S("joke")])),
    Envelope("data", Obj([final |-> EmptyString])),
    Envelope("data", Obj(NoFields)),
    Envelope("error", Obj([message |-> S("rate limited")])),
    Envelope("error", Obj([message |-> EmptyString])),
    Envelope("error", Obj(NoFields)) }

\* the texts a message event may carry
InboundTexts == {Malformed} \cup {Text(v) : v \in Inbound}

----------------------------------------------------------------------------
(* The initial render: the useState / useRef initial values *)

Init ==
    /\ messages = <<>>
    /\ input = EmptyString
    /\ isStreaming = FALSE
    /\ currentAgent = Null
    /\ connectionError = EmptyString
    /\ connectionStatus = "Disconnected"
    /\ wsRef = 0
    /\ readyState = [s \in 1..MaxSockets |-> "NONE"]
    /\ nSockets = 0
    /\ timers = 0
    /\ phase = "created"
    /\ pendingClose = 0
    /\ sent = <<>>
    /\ last = "render"

----------------------------------------------------------------------------
(* connectWebSocket and the callbacks it installs (the effect of line 45) *)

\* lines 47-49 and the catch of lines 87-90: `new WebSocket` either returns a
\* socket in state CONNECTING, stored in wsRef, or throws.
connectWebSocket(throws) ==
    IF throws
    THEN /\ connectionError' = S("Failed to connect to server")
         /\ UNCHANGED <<wsRef, readyState, nSockets>>
    ELSE /\ nSockets < MaxSockets
         /\ nSockets' = nSockets + 1
         /\ readyState' = [readyState EXCEPT ![nSockets + 1] = "CONNECTING"]
         /\ wsRef' = nSockets + 1
         /\ UNCHANGED connectionError

\* A faulty variant of ws.onopen that takes up again a turn whose user message
\* is still unanswered.
onopen_ResumesTurn ==
    /\ connectionStatus' = "Connected"
    /\ connectionError' = EmptyString
    /\ isStreaming' = (messages # <<>> /\ messages[Len(messages)].role = "user")
    /\ UNCHANGED <<messages, input, currentAgent>>

\* ws.onopen
onopen ==
    /\ connectionStatus' = "Connected"
    /\ connectionError' = EmptyString
    /\ UNCHANGED <<messages, input, isStreaming, currentAgent>>

\* A faulty variant of ws.onclose that leaves the turn in flight.
onclose_KeepsTurn ==
    /\ connectionStatus' = "Disconnected"
    /\ timers' = timers + 1
    /\ UNCHANGED <<messages, input, isStreaming, currentAgent, connectionError>>

\* A faulty variant of ws.onclose that starts the reconnect timer twice.
onclose_SchedulesTwice ==
    /\ connectionStatus' = "Disconnected"
    /\ isStreaming' = FALSE
    /\ currentAgent' = Null
    /\ timers' = timers + 2
    /\ UNCHANGED <<messages, input, connectionError>>

\* ws.onclose: the state updates and the reconnect timer it starts
onclose ==
    /\ connectionStatus' = "Disconnected"
    /\ isStreaming' = FALSE
    /\ currentAgent' = Null
    /\ timers' = timers + 1
    /\ UNCHANGED <<messages, input, connectionError>>

\* ws.onerror
onerror ==
    /\ connectionError' = S("WebSocket connection error. Retrying...")
    /\ connectionStatus' = "Error"
    /\ UNCHANGED <<messages, input, isStreaming, currentAgent>>

\* the condition of the reconnect timer's callback
ShouldReconnect == wsRef = 0 \/ readyState[wsRef] = "CLOSED"

----------------------------------------------------------------------------
(* handleWebSocketMessage *)

\* `const { type, data } = message` throws on null; every case reads a property
\* of data first, which throws when data is undefined or null.
DestructureThrows(message) == message.kind = "null"
DataThrows(message) == ~Has(message, "data") \/ message.fields.data.kind = "null"

\* case "status"
HandleStatus(data) ==
    LET step == Field(data, "step") IN
    /\ currentAgent' =
         IF step = S("received") \/ step = S("accepted")
         THEN [agent |-> S("System"), content |-> S("Request accepted, starting agents...")]
         ELSE IF step = S("group:start")
         THEN [agent |-> S("AG2"), content |-> S("Agents are collaborating...")]
         ELSE IF step = S("group:done")
         THEN [agent |-> S("Finalizing"), content |-> S("Completing response...")]
         ELSE currentAgent
    /\ UNCHANGED <<messages, isStreaming, connectionError>>

\* case "agent_message"
HandleAgentMessage(data) ==
    /\ currentAgent' =
         IF Truthy(Field(data, "agent")) /\ Truthy(Field(data, "content"))
         THEN [agent |-> Field(data, "agent"),
               content |-> Field(data, "agent") \o S(" is working...")]
         ELSE currentAgent
    /\ UNCHANGED <<messages, isStreaming, connectionError>>

\* A faulty variant of case "data" that sets the log to the answer alone instead
\* of appending to the previous log.
HandleData_ReplacesLog(data) ==
    IF Truthy(Field(data, "final"))
    THEN /\ messages' = <<[role |-> "assistant", content |-> Field(data, "final")]>>
         /\ isStreaming' = FALSE
         /\ currentAgent' = Null
         /\ UNCHANGED connectionError
    ELSE UNCHANGED <<messages, isStreaming, currentAgent, connectionError>>

\* case "data"
HandleData(data) ==
    IF Truthy(Field(data, "final"))
    THEN /\ Len(messages) < MaxLog
         /\ messages' = Append(messages, [role |-> "assistant", content |-> Field(data, "final")])
         /\ isStreaming' = FALSE
         /\ currentAgent' = Null
         /\ UNCHANGED connectionError
    ELSE UNCHANGED <<messages, isStreaming, currentAgent, connectionError>>

\* A faulty variant of case "error" that shows a fixed text instead of the
\* server's message.
HandleError_FixedText(data) ==
    /\ connectionError' = S("Server error")
    /\ isStreaming' = FALSE
    /\ currentAgent' = Null
    /\ UNCHANGED messages

\* case "error"
HandleError(data) ==
    /\ connectionError' = Field(data, "message")
    /\ isStreaming' = FALSE
    /\ currentAgent' = Null
    /\ UNCHANGED messages

handleWebSocketMessage(message) ==
    IF DestructureThrows(message)
    THEN UNCHANGED <<messages, isStreaming, currentAgent, connectionError>>
    ELSE LET type == Field(message, "type") IN
         IF type \in {S("status"), S("agent_message"), S("data"), S("error")}
         THEN IF DataThrows(message)
              THEN UNCHANGED <<messages, isStreaming, currentAgent, connectionError>>
              ELSE LET data == message.fields.data IN
                   CASE type = S("status") -> HandleStatus(data)
                     [] type = S("agent_message") -> HandleAgentMessage(data)
                     [] type = S("data") -> HandleData(data)
                     [] type = S("error") -> HandleError(data)
         ELSE UNCHANGED <<messages, isStreaming, currentAgent, connectionError>>

\* ws.onmessage: JSON.parse and handleWebSocketMessage inside one try/catch
onmessage(text) ==
    LET parsed == JSONparse(text) IN
    /\ IF parsed.threw
       THEN UNCHANGED <<messages, isStreaming, currentAgent, connectionError>>
       ELSE handleWebSocketMessage(parsed.value)
    /\ UNCHANGED <<input, connectionStatus>>

----------------------------------------------------------------------------
(* sendMessage *)

\* Faulty variants of the early return, used to show that the properties of
\* sendMessage depend on it: one without the isStreaming test, one without the
\* topic test, one without the readyState test.
SendRejected_IgnoresStreaming(topic) ==
    \/ ~Truthy(topic)
    \/ wsRef = 0
    \/ readyState[wsRef] # "OPEN"

SendRejected_IgnoresTopic(topic) ==
    \/ isStreaming
    \/ wsRef = 0
    \/ readyState[wsRef] # "OPEN"

SendRejected_IgnoresReadyState(topic) ==
    \/ ~Truthy(topic)
    \/ isStreaming
    \/ wsRef = 0

\* the early return of line 161
SendRejected(topic) ==
    \/ ~Truthy(topic)
    \/ isStreaming
    \/ wsRef = 0
    \/ readyState[wsRef] # "OPEN"

\* lines 170-175
UserMessage(topic) == [role |-> "user", content |-> topic]

\* A faulty variant that sends the text field as typed, not the trimmed topic.
OutboundText_Untrimmed(topic) == JSONstringify(S("generate_joke"), input)

\* lines 182-187: the text handed to ws.send
OutboundText(topic) == JSONstringify(S("generate_joke"), topic)

sendMessage ==
    LET topic == Trim(input) IN
    IF SendRejected(topic)
    THEN UNCHANGED <<messages, input, isStreaming, currentAgent, connectionError, sent>>
    ELSE /\ Len(messages) < MaxLog
         /\ connectionError' = EmptyString
         /\ input' = EmptyString
         /\ messages' = Append(messages, UserMessage(topic))
         /\ isStreaming' = TRUE
         /\ currentAgent' = [agent |-> S("Connecting"), content |-> S("Initializing agents...")]
         /\ sent' = Append(sent, [ws |-> wsRef, text |-> OutboundText(topic)])

----------------------------------------------------------------------------
(* The steps of the client *)

\* no task runs between a failed socket's error event and its close event
BetweenTasks == pendingClose = 0

\* the effect of line 45 runs after the first render
Mount(throws) ==
    /\ BetweenTasks /\ phase = "created"
    /\ phase' = "mounted"
    /\ connectWebSocket(throws)
    /\ last' = "mount"
    /\ UNCHANGED <<messages, input, isStreaming, currentAgent, connectionStatus,
                   timers, pendingClose, sent>>

\* the open event of socket s
SocketOpens(s) ==
    /\ BetweenTasks /\ readyState[s] = "CONNECTING"
    /\ readyState' = [readyState EXCEPT ![s] = "OPEN"]
    /\ onopen
    /\ last' = "open"
    /\ UNCHANGED <<wsRef, nSockets, timers, phase, pendingClose, sent>>

\* a message event of socket s
SocketMessage(s, text) ==
    /\ BetweenTasks /\ readyState[s] = "OPEN"
    /\ onmessage(text)
    /\ last' = "message"
    /\ UNCHANGED <<wsRef, readyState, nSockets, timers, phase, pendingClose, sent>>

\* socket s closes without an error: the peer closed it, or close() completed
SocketCloses(s) ==
    /\ BetweenTasks /\ readyState[s] \in {"OPEN", "CLOSING"}
    /\ readyState' = [readyState EXCEPT ![s] = "CLOSED"]
    /\ onclose
    /\ last' = "close"
    /\ UNCHANGED <<wsRef, nSockets, phase, pendingClose, sent>>

\* the connection of socket s fails: the error event, with the close event to follow
SocketFails(s) ==
    /\ BetweenTasks /\ readyState[s] \in {"CONNECTING", "OPEN", "CLOSING"}
    /\ readyState' = [readyState EXCEPT ![s] = "CLOSED"]
    /\ onerror
    /\ pendingClose' = s
    /\ last' = "error"
    /\ UNCHANGED <<wsRef, nSockets, timers, phase, sent>>

\* the close event that follows the error event of socket s
SocketClosesAfterError(s) ==
    /\ pendingClose = s
    /\ pendingClose' = 0
    /\ onclose
    /\ last' = "close"
    /\ UNCHANGED <<wsRef, readyState, nSockets, phase, sent>>

\* A faulty variant of the reconnect timer: it repeats (the timer stays pending)
\* and its callback connects without looking at the current connection.
ReconnectTimer_Repeating(throws) ==
    /\ BetweenTasks /\ timers > 0
    /\ connectWebSocket(throws)
    /\ last' = "timer"
    /\ UNCHANGED <<messages, input, isStreaming, currentAgent, connectionStatus,
                   timers, phase, pendingClose, sent>>

\* the callback of lines 74-78, 3000 ms after a close event
ReconnectTimer(throws) ==
    /\ BetweenTasks /\ timers > 0
    /\ timers' = timers - 1
    /\ IF ShouldReconnect
       THEN connectWebSocket(throws)
       ELSE ~throws /\ UNCHANGED <<wsRef, readyState, nSockets, connectionError>>
    /\ last' = "timer"
    /\ UNCHANGED <<messages, input, isStreaming, currentAgent, connectionStatus,
                   phase, pendingClose, sent>>

\* the cleanup of lines 96-101: close() moves a socket that is not yet closing
\* or closed to CLOSING
Cleanup ==
    /\ BetweenTasks /\ phase = "mounted"
    /\ phase' = "unmounted"
    /\ IF wsRef # 0
       THEN /\ readyState' = [readyState EXCEPT ![wsRef] =
                                IF @ \in {"CONNECTING", "OPEN"} THEN "CLOSING" ELSE @]
            /\ wsRef' = 0
       ELSE UNCHANGED <<wsRef, readyState>>
    /\ last' = "cleanup"
    /\ UNCHANGED <<messages, input, isStreaming, currentAgent, connectionError,
                   connectionStatus, nSockets, timers, pendingClose, sent>>

\* The user acts on the rendered component, that is, while it is mounted.
\* onChange of the text field: setInput(e.target.value)
SetInput(value) ==
    /\ BetweenTasks /\ phase = "mounted"
    /\ input' = value
    /\ last' = "setInput"
    /\ UNCHANGED <<messages, isStreaming, currentAgent, connectionError, connectionStatus,
                   wsRef, readyState, nSockets, timers, phase, pendingClose, sent>>

\* the send button or the Enter key: sendMessage()
Submit ==
    /\ BetweenTasks /\ phase = "mounted"
    /\ sendMessage
    /\ last' = "sendMessage"
    /\ UNCHANGED <<connectionStatus, wsRef, readyState, nSockets, timers, phase, pendingClose>>

Sockets == 1..MaxSockets

Next ==
    \/ \E throws \in BOOLEAN : Mount(throws)
    \/ \E s \in Sockets : SocketOpens(s)
    \/ \E s \in Sockets, text \in InboundTexts : SocketMessage(s, text)
    \/ \E s \in Sockets : SocketCloses(s)
    \/ \E s \in Sockets : SocketFails(s)
    \/ \E s \in Sockets : SocketClosesAfterError(s)
    \/ \E throws \in BOOLEAN : ReconnectTimer(throws)
    \/ Cleanup
    \/ \E value \in Inputs : SetInput(value)
    \/ Submit

Spec == Init /\ [][Next]_vars

----------------------------------------------------------------------------
(* Vocabulary of the properties *)

\* a turn is in flight
InFlight == isStreaming
\* the placeholder status sendMessage installs
Placeholder == [agent |-> S("Connecting"), content |-> S("Initializing agents...")]
\* the states of the turn, read off the component's state
TurnConnecting == isStreaming /\ currentAgent = Placeholder
TurnStreaming == isStreaming /\ currentAgent # Placeholder /\ currentAgent # Null
TurnCompleted == ~isStreaming /\ messages # <<>> /\ messages[Len(messages)].role = "assistant"
TurnFailed == ~isStreaming /\ messages # <<>> /\ messages[Len(messages)].role = "user"

\* the connection handle is an open socket
HandleOpen == wsRef # 0 /\ readyState[wsRef] = "OPEN"

\* a string of whitespace only (the empty string included)
IsBlank(s) == \A i \in 1..Len(s) : s[i] \in WhiteSpace
\* s without its leading and trailing whitespace, for a string that is not blank
Stripped(s) ==
    LET solid == {i \in 1..Len(s) : s[i] \notin WhiteSpace}
        first == CHOOSE i \in solid : \A j \in solid : i <= j
        final == CHOOSE i \in solid : \A j \in solid : j <= i
    IN  SubSeq(s, first, final)

\* this step is the message event carrying `text`, on some socket
Delivered(text) == \E s \in Sockets : SocketMessage(s, text)

\* this step is a call of sendMessage that changed nothing
SubmitIgnored == UNCHANGED <<messages, input, isStreaming, currentAgent, connectionError,
                             connectionStatus, sent>>

----------------------------------------------------------------------------
(* C1 *)

\* C1 (as claimed): a message event that arrives while no turn is in flight
\* changes neither the message log, nor the in-flight flag, nor AgentStatus, nor
\* the error message; so a turn makes at most one terminal transition.
C1_StaleEventsIgnored ==
    [][(last' = "message" /\ ~InFlight)
         => UNCHANGED <<messages, isStreaming, currentAgent, connectionError>>]_vars

----------------------------------------------------------------------------
(* C2 *)

\* C2 (as claimed): once the cleanup has run, no new connection is created.
C2_NoReconnectAfterTeardown ==
    [][phase = "unmounted" => nSockets' = nSockets]_vars

----------------------------------------------------------------------------
(* C3 *)

\* C3 (as claimed): after the cleanup has run, no callback changes the connection
\* status, the in-flight flag, AgentStatus, the error message or the message log.
C3_NoUpdatesAfterTeardown ==
    [][phase = "unmounted" => UNCHANGED observable]_vars

----------------------------------------------------------------------------
(* C4 *)

\* C4: a call of sendMessage while a turn is in flight changes nothing, whatever
\* the topic: the log, the in-flight flag, AgentStatus, the error message and the
\* text field are unchanged and nothing is sent.
C4_SubmitWhileInFlightIsNoOp ==
    [][(last' = "sendMessage" /\ InFlight) => SubmitIgnored]_vars

\* sendMessage has just been called with a topic that is not blank, on an open
\* connection, while a turn was in flight (sendMessage empties the text field
\* when it accepts, so this call was rejected)
C4_Witness ==
    /\ last = "sendMessage" /\ InFlight
    /\ ~IsBlank(input) /\ HandleOpen /\ connectionStatus = "Connected"

----------------------------------------------------------------------------
(* C5 *)

\* C5: a call of sendMessage with an empty or whitespace-only text field changes
\* nothing in any state: no message is appended, the turn state is unchanged and
\* nothing is sent.
C5_BlankTopicRejected ==
    [][(last' = "sendMessage" /\ IsBlank(input)) => SubmitIgnored]_vars

\* sendMessage has just been called with a whitespace-only text field while no
\* turn was in flight and the connection was open
C5_Witness ==
    /\ last = "sendMessage" /\ IsBlank(input) /\ input # EmptyString
    /\ ~InFlight /\ HandleOpen /\ connectionStatus = "Connected"

----------------------------------------------------------------------------
(* C6 *)

\* C6: a call of sendMessage is accepted only when the connection status is
\* "Connected" and the connection handle is an open socket; in every other
\* state it changes nothing and sends nothing.
C6_SubmitNeedsConnected ==
    [][(last' = "sendMessage" /\ ~(connectionStatus = "Connected" /\ HandleOpen))
         => SubmitIgnored]_vars

\* sendMessage has just been called with a topic that is not blank and no turn
\* in flight while the client was disconnected (so the call was rejected)
C6_Witness ==
    /\ last = "sendMessage" /\ ~IsBlank(input) /\ ~InFlight
    /\ connectionStatus = "Disconnected" /\ ~HandleOpen

----------------------------------------------------------------------------
(* C7 *)

\* C7: a call of sendMessage with a topic that is not blank, while no turn is in
\* flight and the status is "Connected", appends exactly one user message whose
\* content is the trimmed topic, puts the turn in flight with the "Connecting"
\* placeholder, clears the error message and the text field, and sends exactly
\* one envelope {type: "generate_joke", topic} with that topic on the open
\* connection.
C7_AcceptedSubmit ==
    [][(last' = "sendMessage" /\ ~IsBlank(input) /\ ~InFlight
          /\ connectionStatus = "Connected")
         => /\ messages' = Append(messages, [role |-> "user", content |-> Stripped(input)])
            /\ isStreaming' /\ currentAgent' = Placeholder
            /\ connectionError' = EmptyString
            /\ HandleOpen
            /\ sent' = Append(sent, [ws |-> wsRef,
                                     text |-> << <<S("type"), S("generate_joke")>>,
                                                 <<S("topic"), Stripped(input)>> >>])]_vars

\* the second submit has just been accepted, of a topic typed with surrounding
\* whitespace
C7_Witness ==
    /\ last = "sendMessage" /\ TurnConnecting
    /\ messages[Len(messages)] = [role |-> "user", content |-> <<"a">>]
    /\ Len(sent) = 2

----------------------------------------------------------------------------
(* C8 *)

\* What the scheduling guarantees: the effect runs after the first render, a
\* pending timer fires, the close event follows the error event, and a socket
\* on which close() was called does close.  When and whether the server sends a
\* message or closes an open connection is up to the environment.
FairSpec ==
    /\ Spec
    /\ WF_vars(\E throws \in BOOLEAN : Mount(throws))
    /\ WF_vars(\E throws \in BOOLEAN : ReconnectTimer(throws))
    /\ WF_vars(\E s \in Sockets : SocketClosesAfterError(s))
    /\ WF_vars(\E s \in Sockets : readyState[s] = "CLOSING" /\ SocketCloses(s))

\* the progress events: a status event with a known step, an agent_message with
\* an agent and a content
ProgressTexts ==
    {Text(Envelope("status", Obj([step |-> S(step)]))) :
        step \in {"received", "accepted", "group:start", "group:done"}}
    \cup {Text(Envelope("agent_message", Obj([agent |-> S("Writer"), content |-> S("draft")])))}

----------------------------------------------------------------------------
(* C9 *)

\* the contents of the Final events the server may send: the `final` field of
\* a data payload, which may be the empty string
FinalContents == {S("joke"), EmptyString}
Final(content) == Text(Envelope("data", Obj([final |-> content])))

\* C9 (as claimed): a Final{content} event received while a turn is in flight
\* appends exactly one assistant message with that content at the end of the
\* log, ends the turn, clears AgentStatus, leaves the error message empty and
\* leaves the connection as it is: same handle, same readyState, same status.
C9_FinalCompletesTurn ==
    [][\A content \in FinalContents :
         (InFlight /\ Delivered(Final(content)))
           => /\ messages' = Append(messages, [role |-> "assistant", content |-> content])
              /\ ~isStreaming'
              /\ currentAgent' = Null
              /\ connectionError' = EmptyString
              /\ connectionStatus' = connectionStatus
              /\ readyState' = readyState /\ wsRef' = wsRef]_vars

----------------------------------------------------------------------
(* C10 *)

\* the messages a server error event may carry
ErrorMessages == {S("rate limited"), EmptyString}
ServerError(message) == Text(Envelope("error", Obj([message |-> message])))

\* C10: an error event {type: "error", data: {message}} received while a turn is
\* in flight ends the turn, shows the server's message verbatim as the error
\* message, clears AgentStatus and leaves the message log unchanged.
C10_ServerErrorFailsTurn ==
    [][\A message \in ErrorMessages :
         (InFlight /\ Delivered(ServerError(message)))
           => /\ ~isStreaming'
              /\ connectionError' = message
              /\ currentAgent' = Null
              /\ messages' = messages]_vars

\* a server error has just failed the turn: the log ends with the unanswered
\* user message and the server's text is the error message
C10_Witness ==
    /\ last = "message" /\ TurnFailed /\ currentAgent = Null
    /\ connectionError = S("rate limited") /\ connectionStatus = "Connected"

----------------------------------------------------------------------------
(* C11 *)

\* C11 (as claimed): the close event that ends a transport failure (after an
\* error event, or on its own) while a turn is in flight ends the turn, clears
\* AgentStatus, appends no message and leaves a reason showing as the error
\* message.
C11_TransportFailureFailsTurnVisibly ==
    [][(InFlight /\ last' = "close")
         => /\ ~isStreaming'
            /\ currentAgent' = Null
            /\ messages' = messages
            /\ Truthy(connectionError')]_vars

----------------------------------------------------------------------------
(* C12 *)

\* C12: every close event starts exactly one reconnect timer and creates no
\* connection itself; a connection is created only by the effect at mount or by
\* the callback of a timer, one at a time, once the timer's delay has run out
\* (the step ReconnectTimer); a timer's callback runs once; and at no time is
\* more than one timer pending.
C12_OneReconnectPerClose ==
    /\ [](timers <= 1)
    /\ [][/\ (last' = "close") => (timers' = timers + 1 /\ nSockets' = nSockets)
          /\ (nSockets' # nSockets)
               => (last' \in {"mount", "timer"} /\ nSockets' = nSockets + 1)
          /\ (last' = "timer") => (timers' = timers - 1)
          /\ (last' = "timer" /\ phase = "mounted" /\ connectionError' = connectionError)
               => (nSockets' = nSockets + 1 /\ wsRef' = nSockets')]_vars

\* the mounted client's second connection has just been created by the timer
\* that the close of the first one started
C12_Witness ==
    /\ last = "timer" /\ phase = "mounted" /\ timers = 0
    /\ nSockets = 2 /\ wsRef = 2
    /\ readyState[1] = "CLOSED" /\ readyState[2] = "CONNECTING"

----------------------------------------------------------------------------
(* C13 *)

\* C13 (as claimed): while the client is mounted it is never in a state from
\* which no further connection attempt will be made: a connection is connecting,
\* open or closing (its close event will start the timer), or a close event is
\* about to be delivered, or a reconnect timer is pending.
C13_AlwaysAnotherAttempt ==
    phase = "mounted"
      => \/ \E s \in Sockets : readyState[s] \in {"CONNECTING", "OPEN", "CLOSING"}
         \/ pendingClose # 0
         \/ timers > 0

----------------------------------------------------------------------------
(* C14 *)

\* the connections created by the client that are connecting or open
Sessions == {s \in Sockets : readyState[s] \in {"CONNECTING", "OPEN"}}

\* C14: in every reachable state at most one connection created by the client
\* is connecting or open, and a reconnect timer's callback creates a connection
\* only when none is connecting or open.
C14_AtMostOneSession ==
    /\ [](Cardinality(Sessions) <= 1)
    /\ [][(last' = "timer" /\ nSockets' # nSockets) => Sessions = {}]_vars

\* a reconnect timer created the third connection, which is now open, after the
\* first two had been closed
C14_Witness ==
    /\ nSockets = 3 /\ wsRef = 3 /\ Sessions = {3}
    /\ readyState[3] = "OPEN" /\ connectionStatus = "Connected"

----------------------------------------------------------------------------
(* C15 *)

\* C15 (as claimed): in every reachable state AgentStatus (currentAgent) is
\* present only while a turn is in flight.
C15_AgentStatusOnlyInFlight == (currentAgent # Null) => InFlight

----------------------------------------------------------------------------
(* C16 *)

KnownTypes == {S("status"), S("agent_message"), S("data"), S("error")}

\* the payload carries none of the recognized fields
NoRecognizedField(data) ==
    /\ ~Has(data, "step")
    /\ ~(Has(data, "agent") /\ Has(data, "content"))
    /\ ~Has(data, "final")
    /\ ~Has(data, "message")

\* the text is not valid JSON, or is JSON without a known `type`, or has a known
\* `type` but no payload or a payload with none of the recognized fields
Unclassifiable(text) ==
    \/ ~text.valid
    \/ text.value = Null
    \/ Field(text.value, "type") \notin KnownTypes
    \/ ~Has(text.value, "data")
    \/ text.value.fields.data = Null
    \/ NoRecognizedField(text.value.fields.data)

\* C16 (as claimed): the delivery of a message that cannot be classified changes
\* neither the message log, the turn state, AgentStatus, the error message nor
\* the connection status.
C16_UnclassifiableChangesNothing ==
    [][\A text \in InboundTexts :
         (Unclassifiable(text) /\ Delivered(text))
           => UNCHANGED <<messages, isStreaming, currentAgent, connectionError,
                          connectionStatus>>]_vars

----------------------------------------------------------------------------
(* C17 *)

\* C17: every step leaves the message log unchanged or appends exactly one
\* message at its end: the messages already in the log stay what and where they
\* were.
C17_LogAppendOnly ==
    [][\/ messages' = messages
       \/ /\ Len(messages') = Len(messages) + 1
          /\ SubSeq(messages', 1, Len(messages)) = messages]_vars

\* an answer has just been appended behind the user message of its turn
C17_Witness ==
    /\ last = "message"
    /\ messages = <<UserMessage(S("b")), [role |-> "assistant", content |-> S("joke")]>>

----------------------------------------------------------------------------
(* C18 *)

\* the messages of the given type whose payload is an object
OfType(type) ==
    {m \in Inbound : /\ m # Null
                     /\ Field(m, "type") = S(type)
                     /\ Has(m, "data")
                     /\ m.fields.data # Null}

\* C18 (as claimed): a data message whose payload has a `final` field, whatever
\* its value, completes the turn in flight with an assistant message of that
\* content; an agent_message whose payload has `agent` and `content` fields,
\* whatever their values, sets AgentStatus to {agent, "<agent> is working"}.
C18_ClassifiedByPresence ==
    [][/\ \A m \in OfType("data") :
            (Has(m.fields.data, "final") /\ InFlight /\ Delivered(Text(m)))
              => /\ ~isStreaming'
                 /\ messages' = Append(messages, [role |-> "assistant",
                                                  content |-> m.fields.data.fields.final])
       /\ \A m \in OfType("agent_message") :
            (Has(m.fields.data, "agent") /\ Has(m.fields.data, "content")
               /\ Delivered(Text(m)))
              => currentAgent' = [agent |-> m.fields.data.fields.agent,
                                  content |-> m.fields.data.fields.agent
                                                \o S(" is working")]]_vars

----------------------------------------------------------------------------
(* C19 *)

\* the user messages in the log
UserMessages == {i \in DOMAIN messages : messages[i].role = "user"}

\* C19: the number of envelopes sent equals the number of user messages in the
\* log; an envelope is sent only by a submit, one per accepted submit, together
\* with its user message; and a turn comes to be in flight only by a submit that
\* sends an envelope, so a turn ended by a disconnection is not taken up again
\* by the reconnect.
C19_NoAutomaticRetry ==
    /\ [](Len(sent) = Cardinality(UserMessages))
    /\ [][/\ (sent' # sent)
               => /\ last' = "sendMessage"
                  /\ Len(sent') = Len(sent) + 1
                  /\ SubSeq(sent', 1, Len(sent)) = sent
                  /\ Len(messages') = Len(messages) + 1
                  /\ messages'[Len(messages')].role = "user"
          /\ (isStreaming' /\ ~isStreaming)
               => (last' = "sendMessage" /\ sent' # sent)]_vars

\* the connection was lost during the first turn and the client has reconnected:
\* the second connection is open, the turn is over, and the one envelope sent is
\* the one of the user's submit, on the first connection
C19_Witness ==
    /\ last = "open" /\ wsRef = 2 /\ readyState[2] = "OPEN"
    /\ ~isStreaming /\ currentAgent = Null
    /\ Len(messages) = 1 /\ messages[1].role = "user"
    /\ Len(sent) = 1 /\ sent[1].ws = 1

----------------------------------------------------------------------------
(* C20 *)

\* the assistant messages in the log
AssistantMessages == {i \in DOMAIN messages : messages[i].role = "assistant"}

\* C20 (as claimed): the log holds at most as many assistant messages as user
\* messages, and every assistant message comes directly after the user message
\* of its turn.
C20_EveryAnswerHasItsRequest ==
    /\ Cardinality(AssistantMessages) <= Cardinality(UserMessages)
    /\ \A i \in AssistantMessages : i > 1 /\ messages[i - 1].role = "user"

====
